---- MODULE Spec2Model ----
(***************************************************************************)
(* Hedra batch video generator: the API client (hedra_api.py), the batch   *)
(* driver (hedra_batch.py) and their constants (config.py).                *)
(*                                                                         *)
(* One run of main() is modelled: a process position pc, the driver's and  *)
(* the client's local values, the log, the output files on disk, the list  *)
(* of remote calls made, and the process exit status.  The remote service  *)
(* and the wall clock are the environment: every request's outcome and     *)
(* latency is chosen nondeterministically.                                 *)
(***************************************************************************)
EXTENDS Integers, Sequences, FiniteSets, TLC

(* ------------------------------ config.py ------------------------------ *)
API_TIMEOUT == 300
POLL_INTERVAL == 10
IMAGE_PATTERN == ".png"
AUDIO_PATTERN == ".wav"

(* ------------------------------- bounds -------------------------------- *)
MaxImages == 2
MaxAudio == 2
MaxLatency == 1
NumChunks == 2
ChunkSize == 2

(* --------------------------- values and inputs ------------------------- *)
\* Python's None for an absent --api_key argument or environment variable.
NONE == "<None>"
KeyArgs == {NONE, "arg-key"}
EnvValues == {NONE, "", "env-key"}

File(stem, suffix) == [stem |-> stem, suffix |-> suffix]
NoFile == File(0, "")

\* Folder listings: k images, the audio files in one of two enumeration
\* orders, and one file no pattern matches.
AudioOrders(n) ==
    IF n <= 1 THEN {[i \in 1..n |-> File(i, ".wav")]}
    ELSE {[i \in 1..n |-> File(i, ".wav")], [i \in 1..n |-> File(n + 1 - i, ".wav")]}
Folders ==
    {[i \in 1..k |-> File(i, ".png")] \o wavs \o <<File(1, ".txt")>> :
        k \in 0..MaxImages, wavs \in UNION {AudioOrders(n) : n \in 0..MaxAudio}}

\* What a request can come to: a 2xx response with the expected body, a
\* connection failure, a request timeout, a 4xx/5xx response, a 2xx response
\* whose JSON body lacks the expected field, a streamed body that breaks off.
JsonOutcomes == {"ok", "connection", "timeout", "http", "missing_field"}
StreamOutcomes == {"ok", "connection", "timeout", "http", "stream"}
Statuses == {"processing", "", "completed", "failed"}

\* What a status request can come to: a status, or one of the failures.
StatusResponses ==
    {[outcome |-> "ok", status |-> st] : st \in Statuses}
    \cup {[outcome |-> o, status |-> ""] : o \in JsonOutcomes \ {"ok"}}

\* How long a status request can take, in seconds.
Latencies == {0, MaxLatency}

\* The bytes the service streams for a video, and the chunks of ChunkSize
\* bytes in which response.iter_content hands them over.
Body(vid) == [k \in 1..(ChunkSize * NumChunks) |-> 10 * vid + k]
Chunks(vid) ==
    [i \in 1..NumChunks |-> SubSeq(Body(vid), ChunkSize * (i - 1) + 1, ChunkSize * i)]
Absent == <<-1>>
OldContent == <<0>>

NoError == [kind |-> "none", msg |-> "", op |-> ""]
Exc(kind, msg, op) == [kind |-> kind, msg |-> msg, op |-> op]
Ok(v) == [exc |-> NoError, value |-> v]
Raise(e, v) == [exc |-> e, value |-> v]
Raised(r) == r.exc.kind # "none"

LogEntry(level, text, name, id, msg) ==
    [level |-> level, text |-> text, name |-> name, id |-> id, msg |-> msg]
Call(op, name, img, aud, vid) ==
    [op |-> op, name |-> name, image_id |-> img, audio_id |-> aud, video_id |-> vid]

VARIABLES
    api_key_arg,        \* args.api_key
    env_api_key,        \* os.getenv(HEDRA_API_KEY)
    input_exists,       \* input_folder.exists()
    folder,             \* the input folder's listing, in enumeration order
    pc,                 \* position of main()
    exit_status,        \* -1 while running, then the process exit status
    error,              \* the exception that ended the run
    log,                \* log entries written (file and console)
    logging_ready,      \* setup_logging has run
    output_folder_created,  \* output_folder.mkdir has run
    calls,              \* remote operations attempted, status polls excepted
    disk,               \* output path -> file content
    self_api_key,       \* HedraAPI.api_key
    image_id,           \* main: image_id
    audio_files,        \* main: audio_files
    audio_idx,          \* main: position of the for loop
    audio_id,           \* process_audio_file: audio_id
    video_id,           \* process_audio_file: video_id
    elapsed,            \* wait_for_video: time.time() - start_time
    polls,              \* wait_for_video: status fetches started in this call
    fetch_start,        \* wait_for_video: elapsed when the last fetch started
    status,             \* wait_for_video: status
    waited,             \* video ids for which wait_for_video returned normally
    download_response,  \* what the latest download request came to
    next_id             \* the service's next fresh identifier

inputs == <<api_key_arg, env_api_key, input_exists, folder>>
wait_vars == <<elapsed, polls, fetch_start, status>>
vars == <<api_key_arg, env_api_key, input_exists, folder, pc, exit_status, error,
          log, logging_ready, output_folder_created, calls, disk, self_api_key,
          image_id, audio_files, audio_idx, audio_id, video_id, elapsed, polls,
          fetch_start, status, waited, download_response, next_id>>

(* ------------------------------ hedra_api.py --------------------------- *)
HedraAPIError(msg, op) == Exc("HedraAPIError", msg, op)

\* except requests.exceptions.RequestException
IsRequestException(outcome) == outcome \in {"connection", "timeout", "http", "stream"}

\* `a or b`
Truthy(x) == x \notin {NONE, ""}
PyOr(a, b) == IF Truthy(a) THEN a ELSE b

HedraAPI_init_unchecked(api_key, env) == Ok(PyOr(api_key, env))

HedraAPI_init(api_key, env) ==
    LET key == PyOr(api_key, env) IN
    IF ~Truthy(key)
    THEN Raise(HedraAPIError("API key not provided", "HedraAPI.__init__"), key)
    ELSE Ok(key)

upload_asset(outcome, asset_id) ==
    IF IsRequestException(outcome)
    THEN Raise(HedraAPIError("Failed to upload asset", "upload_asset"), 0)
    ELSE IF outcome = "missing_field"
    THEN Raise(Exc("KeyError", "asset_id", "upload_asset"), 0)
    ELSE Ok(asset_id)

create_video(outcome, vid) ==
    IF IsRequestException(outcome)
    THEN Raise(HedraAPIError("Failed to create video", "create_video"), 0)
    ELSE IF outcome = "missing_field"
    THEN Raise(Exc("KeyError", "video_id", "create_video"), 0)
    ELSE Ok(vid)

get_video_status(outcome, st) ==
    IF IsRequestException(outcome)
    THEN Raise(HedraAPIError("Failed to get video status", "get_video_status"), "")
    ELSE IF outcome = "missing_field"
    THEN Raise(Exc("KeyError", "status", "get_video_status"), "")
    ELSE Ok(st)

\* The file at output_path after download_video: untouched when the request
\* fails before open(), truncated and then written chunk by chunk otherwise;
\* `got` is the number of chunks received before the stream ends or breaks.
\* open(output_path, 'wb'): the file is created, or truncated if it exists.
open_wb(old) == <<>>

\* for chunk in response.iter_content(chunk_size=8192): f.write(chunk)
RECURSIVE write_chunks(_, _)
write_chunks(content, chunks) ==
    IF chunks = <<>> THEN content
    ELSE write_chunks(content \o Head(chunks), Tail(chunks))

download_video_opens_first(outcome, chunks, got, old) ==
    IF outcome \in {"connection", "timeout", "http"}
    THEN Raise(HedraAPIError("Failed to download video", "download_video"), open_wb(old))
    ELSE IF outcome = "stream"
    THEN Raise(HedraAPIError("Failed to download video", "download_video"),
               write_chunks(open_wb(old), SubSeq(chunks, 1, got)))
    ELSE Ok(write_chunks(open_wb(old), chunks))

download_video_appends(outcome, chunks, got, old) ==
    IF outcome \in {"connection", "timeout", "http"}
    THEN Raise(HedraAPIError("Failed to download video", "download_video"), old)
    ELSE IF outcome = "stream"
    THEN Raise(HedraAPIError("Failed to download video", "download_video"),
               write_chunks(IF old = Absent THEN <<>> ELSE old, SubSeq(chunks, 1, got)))
    ELSE Ok(write_chunks(IF old = Absent THEN <<>> ELSE old, chunks))

download_video(outcome, chunks, got, old) ==
    IF outcome \in {"connection", "timeout", "http"}
    THEN Raise(HedraAPIError("Failed to download video", "download_video"), old)
    ELSE IF outcome = "stream"
    THEN Raise(HedraAPIError("Failed to download video", "download_video"),
               write_chunks(open_wb(old), SubSeq(chunks, 1, got)))
    ELSE Ok(write_chunks(open_wb(old), chunks))

TimedOut_at_timeout(e) == e >= API_TIMEOUT

TimedOut_late(e) == e > API_TIMEOUT + POLL_INTERVAL

\* if time.time() - start_time > config.API_TIMEOUT
TimedOut(e) == e > API_TIMEOUT

wait_for_video_on_unknown_fails(st) ==
    IF st = "completed" THEN "return"
    ELSE IF st = "processing" THEN "sleep"
    ELSE "raise"

wait_for_video_on_failed_returns(st) ==
    IF st \in {"completed", "failed"} THEN "return" ELSE "sleep"

wait_for_video_on_failed_pending(st) ==
    IF st = "completed" THEN "return" ELSE "sleep"

\* What one loop iteration of wait_for_video does with a fetched status.
wait_for_video_on(st) ==
    IF st = "completed" THEN "return"
    ELSE IF st = "failed" THEN "raise"
    ELSE "sleep"

(* ----------------------------- hedra_batch.py -------------------------- *)
\* folder.glob("*<suffix>")
glob(listing, pattern) == SelectSeq(listing, LAMBDA f : f.suffix = pattern)

find_image_file_takes_first(listing) ==
    LET png_files == glob(listing, IMAGE_PATTERN) IN
    IF png_files = <<>>
    THEN Raise(Exc("ValueError", "No PNG image found", "find_image_file"), NoFile)
    ELSE Ok(png_files[1])

find_image_file(listing) ==
    LET png_files == glob(listing, IMAGE_PATTERN) IN
    IF png_files = <<>>
    THEN Raise(Exc("ValueError", "No PNG image found", "find_image_file"), NoFile)
    ELSE IF Len(png_files) > 1
    THEN Raise(Exc("ValueError", "Multiple PNG images found", "find_image_file"), NoFile)
    ELSE Ok(png_files[1])

output_file_fixed_name(audio_file) == File(1, ".mp4")

\* output_folder / f"{audio_file.stem}.mp4"
output_file(audio_file) == File(audio_file.stem, ".mp4")
OutputPaths == {File(i, ".mp4") : i \in 1..MaxAudio}

\* The output folder before the run: one output path already holds a file.
InitialDisk == [p \in OutputPaths |-> IF p.stem = 1 THEN OldContent ELSE Absent]

no_audio_files_unchecked(found) == FALSE

\* main: if not audio_files
no_audio_files(found) == found = <<>>

process_audio_file_except_silent(e, audio_file, lg) == lg

\* process_audio_file: except HedraAPIError as e: logger.error(...); raise
process_audio_file_except(e, audio_file, lg) ==
    IF e.kind = "HedraAPIError"
    THEN Append(lg, LogEntry("ERROR", "Error processing", audio_file, 0, e.msg))
    ELSE lg

main_except_silent(e, lg) == lg

\* main: except Exception as e: logger.error(...); sys.exit(1)
main_except(e, lg) ==
    Append(lg, LogEntry("ERROR", "Batch processing failed", NoFile, 0, e.msg))

Exit(code, e, lg) ==
    /\ pc' = "exited"
    /\ exit_status' = code
    /\ error' = e
    /\ log' = lg

\* An exception raised inside main's try block.
main_raise(e) == Exit(1, e, main_except(e, log))

\* An exception raised inside process_audio_file's try block.
process_raise(e) ==
    Exit(1, e, main_except(e, process_audio_file_except(e, audio_files[audio_idx], log)))

Info(text, name, id) == LogEntry("INFO", text, name, id, "")

Init ==
    /\ api_key_arg \in KeyArgs
    /\ env_api_key \in EnvValues
    /\ input_exists \in BOOLEAN
    /\ folder \in Folders
    /\ pc = "main"
    /\ exit_status = -1
    /\ error = NoError
    /\ log = <<>>
    /\ logging_ready = FALSE
    /\ output_folder_created = FALSE
    /\ calls = <<>>
    /\ disk = InitialDisk
    /\ self_api_key = NONE
    /\ image_id = 0
    /\ audio_files = <<>>
    /\ audio_idx = 0
    /\ audio_id = 0
    /\ video_id = 0
    /\ elapsed = 0
    /\ polls = 0
    /\ fetch_start = 0
    /\ status = ""
    /\ waited = {}
    /\ download_response = "none"
    /\ next_id = 1

input_folder_missing_unchecked(exists) == FALSE

\* main: if not input_folder.exists()
input_folder_missing(exists) == ~exists

\* main, up to the try block: folder validation, mkdir, setup_logging.
main_start ==
    /\ pc = "main"
    /\ IF input_folder_missing(input_exists)
       THEN /\ Exit(1, Exc("ValueError", "Input folder does not exist", "main"), log)
            /\ UNCHANGED <<logging_ready, output_folder_created>>
       ELSE /\ output_folder_created' = TRUE
            /\ logging_ready' = TRUE
            /\ log' = Append(log, Info("Starting Hedra AI Batch Video Generator", NoFile, 0))
            /\ pc' = "init_api"
            /\ UNCHANGED <<exit_status, error>>
    /\ UNCHANGED <<inputs, download_response, calls, disk, self_api_key, image_id, audio_files, audio_idx,
                   audio_id, video_id, wait_vars, waited, next_id>>

\* api = HedraAPI(args.api_key)
main_init_api ==
    /\ pc = "init_api"
    /\ LET r == HedraAPI_init(api_key_arg, env_api_key) IN
       IF Raised(r)
       THEN main_raise(r.exc) /\ UNCHANGED self_api_key
       ELSE /\ self_api_key' = r.value
            /\ pc' = "upload_image"
            /\ UNCHANGED <<exit_status, error, log>>
    /\ UNCHANGED <<inputs, download_response, logging_ready, output_folder_created, calls, disk, image_id,
                   audio_files, audio_idx, audio_id, video_id, wait_vars, waited, next_id>>

\* image_file = find_image_file(input_folder); image_id = api.upload_asset(image_file)
main_upload_image ==
    /\ pc = "upload_image"
    /\ LET found == find_image_file(folder) IN
       IF Raised(found)
       THEN /\ main_raise(found.exc)
            /\ UNCHANGED <<calls, image_id, next_id>>
       ELSE \E outcome \in JsonOutcomes :
            LET r == upload_asset(outcome, next_id) IN
            /\ calls' = Append(calls, Call("upload_asset", found.value, 0, 0, 0))
            /\ next_id' = next_id + 1
            /\ IF Raised(r)
               THEN main_raise(r.exc) /\ UNCHANGED image_id
               ELSE /\ image_id' = r.value
                    /\ log' = Append(log, Info("Uploaded image", found.value, 0))
                    /\ pc' = "list_audio"
                    /\ UNCHANGED <<exit_status, error>>
    /\ UNCHANGED <<inputs, download_response, logging_ready, output_folder_created, disk, self_api_key,
                   audio_files, audio_idx, audio_id, video_id, wait_vars, waited>>

\* audio_files = list(input_folder.glob(AUDIO_PATTERN)); if not audio_files: raise
main_list_audio ==
    /\ pc = "list_audio"
    /\ LET found == glob(folder, AUDIO_PATTERN) IN
       /\ audio_files' = found
       /\ IF no_audio_files(found)
          THEN main_raise(Exc("ValueError", "No WAV files found", "main"))
               /\ UNCHANGED audio_idx
          ELSE /\ log' = Append(log, Info("Found audio files to process", NoFile, Len(found)))
               /\ audio_idx' = 1
               /\ pc' = "for_audio"
               /\ UNCHANGED <<exit_status, error>>
    /\ UNCHANGED <<inputs, download_response, logging_ready, output_folder_created, calls, disk, self_api_key,
                   image_id, audio_id, video_id, wait_vars, waited, next_id>>

NextAudio_skips(i) == i + 2

NextAudio_stays(i) == i

\* The successor of the loop position after one audio file is done.
NextAudio(i) == i + 1

\* for audio_file in audio_files: the call of process_audio_file (a fresh
\* frame, its first log line); after the loop, the success log line and the
\* normal return of main (exit status 0).
main_for_audio ==
    /\ pc = "for_audio"
    /\ IF audio_idx <= Len(audio_files)
       THEN /\ log' = Append(log, Info("Processing", audio_files[audio_idx], 0))
            /\ audio_id' = 0
            /\ video_id' = 0
            /\ pc' = "upload_audio"
            /\ UNCHANGED <<exit_status, error>>
       ELSE /\ Exit(0, NoError,
                    Append(log, Info("Batch processing completed successfully", NoFile, 0)))
            /\ UNCHANGED <<audio_id, video_id>>
    /\ UNCHANGED <<inputs, download_response, logging_ready, output_folder_created, calls, disk, self_api_key,
                   image_id, audio_files, audio_idx, wait_vars, waited, next_id>>

\* process_audio_file: audio_id = api.upload_asset(audio_file)
process_upload_audio ==
    /\ pc = "upload_audio"
    /\ \E outcome \in JsonOutcomes :
       LET r == upload_asset(outcome, next_id) IN
       /\ calls' = Append(calls, Call("upload_asset", audio_files[audio_idx], 0, 0, 0))
       /\ next_id' = next_id + 1
       /\ IF Raised(r)
          THEN process_raise(r.exc) /\ UNCHANGED audio_id
          ELSE /\ audio_id' = r.value
               /\ log' = Append(log, Info("Uploaded audio file", audio_files[audio_idx], 0))
               /\ pc' = "create_video"
               /\ UNCHANGED <<exit_status, error>>
    /\ UNCHANGED <<inputs, download_response, logging_ready, output_folder_created, disk, self_api_key,
                   image_id, audio_files, audio_idx, video_id, wait_vars, waited>>

create_video_args_swapped(img, aud) == [image_id |-> aud, audio_id |-> img]

\* The arguments process_audio_file passes to api.create_video.
create_video_args(img, aud) == [image_id |-> img, audio_id |-> aud]

\* process_audio_file: video_id = api.create_video(image_id, audio_id, prompt)
process_create_video ==
    /\ pc = "create_video"
    /\ \E outcome \in JsonOutcomes :
       LET r == create_video(outcome, next_id)
           a == create_video_args(image_id, audio_id) IN
       /\ calls' = Append(calls, Call("create_video", audio_files[audio_idx],
                                      a.image_id, a.audio_id, 0))
       /\ next_id' = next_id + 1
       /\ IF Raised(r)
          THEN process_raise(r.exc) /\ UNCHANGED video_id
          ELSE /\ video_id' = r.value
               /\ log' = Append(log, Info("Created video with ID", NoFile, r.value))
               /\ pc' = "wait_for_video"
               /\ UNCHANGED <<exit_status, error>>
    /\ UNCHANGED <<inputs, download_response, logging_ready, output_folder_created, disk, self_api_key,
                   image_id, audio_files, audio_idx, audio_id, wait_vars, waited>>

\* wait_for_video: start_time = time.time()
wait_for_video_begin ==
    /\ pc = "wait_for_video"
    /\ elapsed' = 0
    /\ polls' = 0
    /\ fetch_start' = 0
    /\ status' = ""
    /\ pc' = "wait_loop"
    /\ UNCHANGED <<inputs, download_response, exit_status, error, log, logging_ready, output_folder_created,
                   calls, disk, self_api_key, image_id, audio_files, audio_idx, audio_id,
                   video_id, waited, next_id>>

\* wait_for_video: one iteration of `while True`: the elapsed-time check, the
\* status fetch (which takes `latency`), the reaction to the status, the sleep.
wait_for_video_iter ==
    /\ pc = "wait_loop"
    /\ IF TimedOut(elapsed)
       THEN /\ process_raise(HedraAPIError("Video generation timed out", "wait_for_video"))
            /\ UNCHANGED <<wait_vars, waited>>
       ELSE \E latency \in Latencies, resp \in StatusResponses :
            LET r == get_video_status(resp.outcome, resp.status) IN
            /\ polls' = polls + 1
            /\ fetch_start' = elapsed
            /\ IF Raised(r)
               THEN /\ process_raise(r.exc)
                    /\ elapsed' = elapsed + latency
                    /\ UNCHANGED <<status, waited>>
               ELSE /\ status' = r.value
                    /\ CASE wait_for_video_on(r.value) = "return" ->
                              /\ elapsed' = elapsed + latency
                              /\ waited' = waited \cup {video_id}
                              /\ log' = Append(log, Info("Video generation completed", NoFile, 0))
                              /\ pc' = "download_video"
                              /\ UNCHANGED <<exit_status, error>>
                         [] wait_for_video_on(r.value) = "raise" ->
                              /\ elapsed' = elapsed + latency
                              /\ process_raise(HedraAPIError("Video generation failed",
                                                             "wait_for_video"))
                              /\ UNCHANGED waited
                         [] OTHER ->
                              /\ elapsed' = elapsed + latency + POLL_INTERVAL
                              /\ UNCHANGED <<pc, exit_status, error, log, waited>>
    /\ UNCHANGED <<inputs, download_response, logging_ready, output_folder_created, calls, disk, self_api_key,
                   image_id, audio_files, audio_idx, audio_id, video_id, next_id>>

\* process_audio_file: api.download_video(video_id, output_file), the last log
\* line, and the return to main's for loop.  wait_for_video's frame is gone.
process_download_video ==
    /\ pc = "download_video"
    /\ \E outcome \in StreamOutcomes, got \in 0..(NumChunks - 1) :
       LET path == output_file(audio_files[audio_idx])
           r == download_video(outcome, Chunks(video_id), got, disk[path]) IN
       /\ calls' = Append(calls, Call("download_video", path, 0, 0, video_id))
       /\ disk' = [disk EXCEPT ![path] = r.value]
       /\ download_response' = outcome
       /\ IF Raised(r)
          THEN process_raise(r.exc) /\ UNCHANGED audio_idx
          ELSE /\ log' = Append(log, Info("Downloaded video to", path, 0))
               /\ audio_idx' = NextAudio(audio_idx)
               /\ pc' = "for_audio"
               /\ UNCHANGED <<exit_status, error>>
    /\ elapsed' = 0
    /\ polls' = 0
    /\ fetch_start' = 0
    /\ status' = ""
    /\ UNCHANGED <<inputs, logging_ready, output_folder_created, self_api_key, image_id,
                   audio_files, audio_id, video_id, waited, next_id>>

Next ==
    \/ main_start
    \/ main_init_api
    \/ main_upload_image
    \/ main_list_audio
    \/ main_for_audio
    \/ process_upload_audio
    \/ process_create_video
    \/ wait_for_video_begin
    \/ wait_for_video_iter
    \/ process_download_video

Spec == Init /\ [][Next]_vars

\* Runs that get as far as the client: the input folder exists and the key
\* comes from the command line.
InitWithKey ==
    /\ Init
    /\ input_exists
    /\ api_key_arg # NONE
    /\ env_api_key = NONE

\* The process is never suspended for good and every request is answered:
\* a step that can be taken is eventually taken.
FairSpec == InitWithKey /\ [][Next]_vars /\ WF_vars(Next)

(* ============================ properties =============================== *)
Images == glob(folder, IMAGE_PATTERN)
Audios == glob(folder, AUDIO_PATTERN)
Exited == pc = "exited"
RemoteOps == {"upload_asset", "create_video", "get_video_status", "download_video"}
Seen(c) == <<c.op, c.name>>
CallsOn(name) == {i \in 1..Len(calls) : calls[i].name = name}
ErrorLogged(text, name) ==
    \E i \in 1..Len(log) :
        log[i].level = "ERROR" /\ log[i].text = text /\ log[i].name = name

\* The remote operations of a run over one image and the audio files `wavs`
\* in which nothing fails: the image upload, then one cycle per audio file.
Schedule(img, wavs) ==
    [j \in 1..(3 * Len(wavs) + 1) |->
        IF j = 1 THEN <<"upload_asset", img>>
        ELSE LET a == wavs[(j - 2) \div 3 + 1] IN
             CASE (j - 2) % 3 = 0 -> <<"upload_asset", a>>
               [] (j - 2) % 3 = 1 -> <<"create_video", a>>
               [] OTHER -> <<"download_video", File(a.stem, ".mp4")>>]

\* A step of processing the k-th audio file (k = audio_idx) failed.
FailedInFile ==
    /\ Exited
    /\ error # NoError
    /\ audio_idx \in 1..Len(audio_files)

WaitReturned == pc = "download_video"
WaitRaised == Exited /\ error.op \in {"wait_for_video", "get_video_status"}
TimedOutError == HedraAPIError("Video generation timed out", "wait_for_video")
FailedError == HedraAPIError("Video generation failed", "wait_for_video")

\* C3 as stated: wait_for_video returns normally if and only if "completed"
\* is observed before the elapsed time since the call began exceeds the
\* timeout (elapsed is the elapsed time at which the status was observed).
C3_ReturnsIffCompletedInTime ==
    /\ WaitReturned => (status = "completed" /\ ~(elapsed > API_TIMEOUT))
    /\ (WaitRaised /\ polls > 0) => status # "completed"

\* C3 amended: wait_for_video returns normally if and only if a status fetch
\* that it started while the elapsed time did not exceed the timeout returned
\* "completed"; the observation itself may fall after the timeout by the
\* latency of that fetch.  It gives up with the timeout error only once the
\* elapsed time exceeds the timeout, and never starts a fetch after that.
C3_ReturnsIffCompletedFetchStartedInTime ==
    /\ WaitReturned => (status = "completed" /\ fetch_start <= API_TIMEOUT)
    /\ WaitRaised => status # "completed"
    /\ (WaitRaised /\ error = TimedOutError) => elapsed > API_TIMEOUT
    /\ polls > 0 => fetch_start <= API_TIMEOUT

C3_Witness ==
    /\ WaitReturned
    /\ status = "completed"
    /\ fetch_start = API_TIMEOUT
    /\ elapsed > API_TIMEOUT

\* C4: wait_for_video raises the timeout error when the elapsed time exceeds
\* the timeout while the status is still pending, and the generation-failure
\* error when a status check returns "failed"; the two errors differ, and a
\* "failed" status ends the wait at that check, with no further poll.
C4_TimeoutAndFailureErrors ==
    /\ [](/\ error = TimedOutError =>
               (Exited /\ elapsed > API_TIMEOUT /\ status \notin {"completed", "failed"})
          /\ status = "failed" => (Exited /\ error = FailedError /\ exit_status = 1)
          /\ error = FailedError => status = "failed"
          /\ TimedOutError # FailedError)
    /\ [][(pc = "wait_loop" /\ elapsed > API_TIMEOUT) =>
              (error' = TimedOutError /\ pc' = "exited" /\ polls' = polls)]_vars
    /\ [][(pc = "wait_loop" /\ status' = "failed") =>
              (polls' = polls + 1 /\ pc' = "exited")]_vars
    /\ [][Exited => UNCHANGED vars]_vars

C4_Witness ==
    /\ Exited
    /\ error = TimedOutError
    /\ status = ""
    /\ polls > 1

\* C5: with zero or more than one image file the run fails before any
\* network call is made; find_image_file yields a path only when exactly one
\* file matches the image pattern (and then that file).
C5_ImageCountChecked ==
    /\ Len(Images) # 1 =>
          /\ calls = <<>>
          /\ polls = 0
          /\ pc \in {"main", "init_api", "upload_image", "exited"}
          /\ Exited => exit_status = 1
          /\ (Exited /\ input_exists /\ Truthy(self_api_key)) =>
                (error.kind = "ValueError" /\ error.op = "find_image_file")
    /\ calls # <<>> => (Len(Images) = 1 /\ Seen(calls[1]) = <<"upload_asset", Images[1]>>)

C5_Witness ==
    /\ Exited
    /\ Len(Images) > 1
    /\ error.op = "find_image_file"
    /\ Truthy(self_api_key)
    /\ calls = <<>>

NoWavError == Exc("ValueError", "No WAV files found", "main")

MissingKeyError == HedraAPIError("API key not provided", "HedraAPI.__init__")

\* C7: with no API key argument and the environment variable unset or empty,
\* constructing the client fails with the API error and the run makes no
\* network request, neither the image upload nor any later call.
C7_MissingCredentialFailsConstruction ==
    (api_key_arg = NONE /\ env_api_key \in {NONE, ""}) =>
        /\ calls = <<>>
        /\ polls = 0
        /\ pc \in {"main", "init_api", "exited"}
        /\ ~Truthy(self_api_key)
        /\ (Exited /\ input_exists) =>
              (error = MissingKeyError /\ exit_status = 1 /\ logging_ready)

C7_Witness ==
    /\ Exited
    /\ api_key_arg = NONE
    /\ env_api_key = ""
    /\ error = MissingKeyError
    /\ calls = <<>>

\* C8: download_video is called for a video id only after wait_for_video
\* returned normally for that id (status "completed" observed); when the
\* upload, create or status call of an audio file fails, or its job fails or
\* times out, no download is made and no output file is written for it.
C8_DownloadOnlyAfterCompleted ==
    /\ \A i \in 1..Len(calls) :
          calls[i].op = "download_video" =>
              /\ calls[i].video_id \in waited
              /\ i > 1
              /\ calls[i - 1].op = "create_video"
              /\ calls[i].name = File(calls[i - 1].name.stem, ".mp4")
    /\ pc = "download_video" => (status = "completed" /\ video_id \in waited)
    /\ \A v \in waited : v # 0 /\ v < next_id
    /\ (FailedInFile /\ error.op # "download_video") =>
          LET path == File(audio_files[audio_idx].stem, ".mp4") IN
          /\ CallsOn(path) = {}
          /\ disk[path] = InitialDisk[path]
          /\ video_id \notin waited

C8_Witness ==
    /\ FailedInFile
    /\ audio_idx = 2
    /\ error = FailedError
    /\ disk[File(audio_files[2].stem, ".mp4")] = InitialDisk[File(audio_files[2].stem, ".mp4")]
    /\ disk[File(audio_files[1].stem, ".mp4")] # InitialDisk[File(audio_files[1].stem, ".mp4")]

C10_OnlyHedraAPIErrorEscapes ==
    error.op \in RemoteOps => error.kind = "HedraAPIError"

LastLog == log[Len(log)]
ErrorEntries == {i \in 1..Len(log) : log[i].level = "ERROR"}
MissingFolderError == Exc("ValueError", "Input folder does not exist", "main")

C13_DownloadWritesStreamedBytes ==
    [][(pc = "download_video" /\ pc' = "for_audio") =>
          LET path == File(audio_files[audio_idx].stem, ".mp4") IN
          /\ disk' = [disk EXCEPT ![path] = Body(video_id)]
          /\ Len(disk'[path]) = ChunkSize * NumChunks
          /\ calls' = Append(calls, Call("download_video", path, 0, 0, video_id))]_vars

C13_Witness ==
    /\ pc = "for_audio"
    /\ audio_idx > 1
    /\ calls[Len(calls)].name = File(1, ".mp4")
    /\ InitialDisk[File(1, ".mp4")] = OldContent
    /\ disk[File(1, ".mp4")] = Body(calls[Len(calls)].video_id)

InWait == pc = "wait_loop"

\* C14: wait_for_video always terminates: the elapsed-time check precedes
\* each status fetch, so no fetch is started once the elapsed time exceeds
\* the timeout, and the call ends no later than the timeout plus one poll
\* interval plus one request latency after it began, even when the service
\* reports a pending status for ever.
C14_WaitTerminatesWithinBound ==
    /\ [](/\ polls > 0 => fetch_start <= API_TIMEOUT
          /\ (InWait \/ WaitReturned \/ WaitRaised) =>
                /\ elapsed <= API_TIMEOUT + POLL_INTERVAL + MaxLatency
                /\ polls <= API_TIMEOUT \div POLL_INTERVAL + 1
          /\ InWait => (elapsed >= POLL_INTERVAL * polls
                        /\ elapsed <= fetch_start + MaxLatency + POLL_INTERVAL)
          /\ (WaitRaised /\ error = TimedOutError) =>
                elapsed <= fetch_start + MaxLatency + POLL_INTERVAL)
    /\ (InWait ~> ~InWait)

C14_Witness ==
    /\ WaitRaised
    /\ error = TimedOutError
    /\ status = "processing"
    /\ elapsed = API_TIMEOUT + POLL_INTERVAL + MaxLatency
    /\ polls = API_TIMEOUT \div POLL_INTERVAL + 1

\* C15: "completed" and "failed" are the only terminal statuses: on any
\* other status string, unknown or empty ones included, wait_for_video
\* neither returns nor raises but sleeps one poll interval and goes through
\* the loop again; and only on such a status does the loop go on.
C15_OnlyCompletedAndFailedEndTheWait ==
    /\ [][(InWait /\ polls' = polls + 1 /\ error'.op # "get_video_status"
              /\ status' \notin {"completed", "failed"}) =>
             /\ pc' = "wait_loop"
             /\ error' = NoError
             /\ exit_status' = -1
             /\ elapsed' - elapsed \in {POLL_INTERVAL + l : l \in Latencies}
             /\ log' = log]_vars
    /\ [][(InWait /\ pc' = "wait_loop") =>
             (polls' = polls + 1 /\ status' \notin {"completed", "failed"})]_vars

C15_Witness ==
    /\ InWait
    /\ status = ""
    /\ polls >= 2
    /\ elapsed >= 2 * POLL_INTERVAL

LastCall == calls[Len(calls)]

CreateCalls == {i \in 1..Len(calls) : calls[i].op = "create_video"}

\* C17: the image asset id is written once and only read afterwards: every
\* create_video call of a run passes the id the run's single image upload
\* returned, and the id the upload of the audio file being processed
\* returned.
C17_CreateVideoPassesUploadedIds ==
    /\ [](/\ \A i \in CreateCalls :
                /\ calls[i].image_id = image_id
                /\ image_id # 0
                /\ calls[i].audio_id \notin {0, image_id}
                /\ calls[i - 1].op = "upload_asset"
                /\ calls[i - 1].name = calls[i].name
          /\ \A i, j \in CreateCalls : calls[i].audio_id = calls[j].audio_id => i = j
          /\ pc = "create_video" => (audio_id # 0 /\ audio_id = next_id - 1))
    /\ [][image_id # 0 => image_id' = image_id]_vars
    /\ [][(pc = "upload_image" /\ pc' = "list_audio") =>
             (image_id = 0 /\ image_id' = next_id)]_vars
    /\ [][(pc = "upload_audio" /\ pc' = "create_video") => audio_id' = next_id]_vars
    /\ [][pc = "create_video" =>
             (LastCall'.image_id = image_id /\ LastCall'.audio_id = audio_id)]_vars

C17_Witness ==
    /\ Cardinality(CreateCalls) = 2
    /\ \A i \in CreateCalls : calls[i].image_id = 1
    /\ {calls[i].audio_id : i \in CreateCalls} = {2, 4}
    /\ Cardinality(waited) = 1

\* C18: when the input folder does not exist the run aborts with a non-zero
\* exit status before the output folder is created, before the log file is
\* opened and before any network call.
C18_MissingInputFolderAbortsFirst ==
    ~input_exists =>
        /\ ~output_folder_created
        /\ ~logging_ready
        /\ log = <<>>
        /\ calls = <<>>
        /\ polls = 0
        /\ download_response = "none"
        /\ disk = InitialDisk
        /\ pc \in {"main", "exited"}
        /\ Exited => (exit_status = 1 /\ error = MissingFolderError)

C18_Witness ==
    /\ Exited
    /\ ~input_exists
    /\ error = MissingFolderError
    /\ exit_status = 1
    /\ ~output_folder_created

BeforeOpenFailures == {"connection", "timeout", "http"}

\* C19: when the download request fails at the transport level or returns a
\* non-2xx response, download_video raises before opening output_path: a
\* file already there is left unchanged and no new file is created.
C19_FailedDownloadLeavesFileAlone ==
    /\ [][(pc = "download_video" /\ download_response' \in BeforeOpenFailures) =>
             /\ disk' = disk
             /\ error' = HedraAPIError("Failed to download video", "download_video")
             /\ pc' = "exited"]_vars
    /\ []((Exited /\ download_response \in BeforeOpenFailures) =>
             LET path == File(audio_files[audio_idx].stem, ".mp4") IN
             /\ disk[path] = InitialDisk[path]
             /\ Seen(LastCall) = <<"download_video", path>>)

C19_Witness ==
    /\ Exited
    /\ download_response = "http"
    /\ LastCall.name = File(1, ".mp4")
    /\ disk[File(1, ".mp4")] = OldContent
    /\ error.op = "download_video"

====
